---- MODULE Spec2Model ----
(***************************************************************************)
(* A model of the go-dicom byte-stream cursor (buffer.go) and of the file  *)
(* assembly that drives it (dicom.go).  Bytes are naturals 0..255, byte    *)
(* runs and strings are sequences of bytes.  The Decoder is a record with  *)
(* the fields of the Go struct; a Go panic is recorded in the extra field  *)
(* "panic" (the process aborts: nothing executes after it).                *)
(***************************************************************************)
EXTENDS Integers, Sequences, FiniteSets, TLC

(***************************************************************************)
(* Error values.                                                           *)
(***************************************************************************)
Nil == "nil"
EOF == "EOF"
ErrUnexpectedEOF == "unexpected EOF"
ErrDecodeBytes == "DecodeBytes: requested, remaining"
ErrSkip == "Failed to skip bytes"
ErrJunk == "Decoder found junk"
ErrBadMagic == "Keyword 'DICM' not found in the header"
ErrNoMetaLength == "MetaElementGroupLength not found"
ErrMetaLengthType == "Failed to read uint32 in MetaElementGroupLength"
ErrNoDataElement == "No data element found"
ErrUser == "caller error"

NoPanic == "none"
PanicDecodeBytes == "panic(d.err)"
PanicAssert == "doassert"
PanicSlice == "slice bounds out of range"
PanicIndex == "index out of range"

LittleEndian == "LittleEndian"
BigEndian == "BigEndian"
ImplicitVR == TRUE
ExplicitVR == FALSE

(***************************************************************************)
(* Small helpers.                                                          *)
(***************************************************************************)
Min(a, b) == IF a < b THEN a ELSE b

Zeros(n) == [i \in 1..n |-> 0]

Last(s) == s[Len(s)]

Front(s) == SubSeq(s, 1, Len(s) - 1)

Drop(s, n) == SubSeq(s, n + 1, Len(s))

Panicked(d) == d.panic # NoPanic

DoPanic(d, why) == [d EXCEPT !.panic = why]

(***************************************************************************)
(* The underlying io.Reader.  in.data are the bytes it still holds,        *)
(* in.chunk the most bytes one Read call hands out (0: as many as asked,   *)
(* the bytes.Buffer of ParseBytes), in.eager whether it reports io.EOF     *)
(* together with its last bytes, as io.Reader allows.  in.zeros is the     *)
(* number of calls it still answers with (0, nil) before it hands out      *)
(* data; a reader with in.stuck answers every call so.                     *)
(***************************************************************************)
InRead(in, k) ==
    IF k = 0 THEN [n |-> 0, err |-> Nil]
    ELSE IF in.stuck \/ in.zeros > 0 THEN [n |-> 0, err |-> Nil]
    ELSE IF Len(in.data) = 0 THEN [n |-> 0, err |-> EOF]
    ELSE LET avail == Min(k, Len(in.data))
             n == IF in.chunk > 0 THEN Min(avail, in.chunk) ELSE avail
         IN [n |-> n,
             err |-> IF in.eager /\ n = Len(in.data) THEN EOF ELSE Nil]

\* The reader after a Read call with a buffer of k bytes that returned n.
InAfter(in, k, n) ==
    [in EXCEPT !.data = Drop(@, n),
               !.zeros = IF k > 0 /\ @ > 0 THEN @ - 1 ELSE @]

(***************************************************************************)
(* Decoder: construction, error latch, context stacks.                     *)
(***************************************************************************)
NewDecoder(in, limit, bo, implicit) ==
    [in |-> in, err |-> Nil, bo |-> bo, implicit |-> implicit,
     limit |-> limit, oldBos |-> <<>>, oldImplicits |-> <<>>,
     oldLimits |-> <<>>, pos |-> 0, panic |-> NoPanic]

SetError(d, err) ==
    IF Panicked(d) THEN d
    ELSE IF d.err = Nil THEN [d EXCEPT !.err = err] ELSE d

PushTranslationSyntax(d, bo, implicit) ==
    IF Panicked(d) THEN d
    ELSE [d EXCEPT !.oldBos = Append(@, d.bo),
                   !.oldImplicits = Append(@, d.implicit),
                   !.bo = bo,
                   !.implicit = implicit]

\* PopTranslationSyntax with line 120 left out: the byte order comes back, the
\* VR mode does not.
PopTranslationSyntaxBoOnly(d) ==
    IF Panicked(d) THEN d
    ELSE IF Len(d.oldImplicits) = 0 \/ Len(d.oldBos) = 0
         THEN DoPanic(d, PanicIndex)
    ELSE [d EXCEPT !.bo = Last(d.oldBos),
                   !.oldImplicits = Front(@),
                   !.oldBos = Front(@)]

PopTranslationSyntax(d) ==
    IF Panicked(d) THEN d
    ELSE IF Len(d.oldImplicits) = 0 \/ Len(d.oldBos) = 0
         THEN DoPanic(d, PanicIndex)
    ELSE [d EXCEPT !.implicit = Last(d.oldImplicits),
                   !.bo = Last(d.oldBos),
                   !.oldImplicits = Front(@),
                   !.oldBos = Front(@)]

\* PushLimit taking its argument for an absolute offset: line 133 without d.pos.
PushLimitAbsolute(d, bytes) ==
    IF Panicked(d) THEN d
    ELSE IF ~(bytes >= 0) THEN DoPanic(d, PanicAssert)
    ELSE [d EXCEPT !.oldLimits = Append(@, d.limit),
                   !.limit = bytes]

PushLimit(d, bytes) ==
    IF Panicked(d) THEN d
    ELSE IF ~(bytes >= 0) THEN DoPanic(d, PanicAssert)
    ELSE [d EXCEPT !.oldLimits = Append(@, d.limit),
                   !.limit = d.pos + bytes]

\* PopLimit restoring the bottom of the stack instead of its top.
PopLimitOuter(d) ==
    IF Panicked(d) THEN d
    ELSE IF Len(d.oldLimits) = 0 THEN DoPanic(d, PanicIndex)
    ELSE [d EXCEPT !.limit = d.oldLimits[1],
                   !.oldLimits = Front(@)]

PopLimit(d) ==
    IF Panicked(d) THEN d
    ELSE IF Len(d.oldLimits) = 0 THEN DoPanic(d, PanicIndex)
    ELSE [d EXCEPT !.limit = Last(d.oldLimits),
                   !.oldLimits = Front(@)]

Pos(d) == d.pos

Error(d) == d.err

DLen(d) == d.limit - d.pos

\* Finish without the Len() test of lines 153-155.
FinishErrorOnly(d) == d.err

Finish(d) ==
    IF d.err # Nil THEN d.err
    ELSE IF DLen(d) # 0 THEN ErrJunk
    ELSE Nil

(***************************************************************************)
(* Decoder.Read with a buffer of k bytes: the decoder after the call, the  *)
(* count and error returned, and the bytes stored at the front of p.       *)
(***************************************************************************)
Read(d, k) ==
    LET desired == DLen(d) IN
    IF Panicked(d) THEN [d |-> d, n |-> 0, err |-> Nil, data |-> <<>>]
    ELSE IF desired = 0
         THEN [d |-> d, n |-> 0, err |-> IF k = 0 THEN Nil ELSE EOF, data |-> <<>>]
    ELSE IF desired < k /\ desired < 0
         THEN [d |-> DoPanic(d, PanicSlice), n |-> 0, err |-> Nil, data |-> <<>>]
    ELSE LET kk == IF desired < k THEN desired ELSE k
             r == InRead(d.in, kk)
         IN [d |-> [d EXCEPT !.in = InAfter(@, kk, r.n),
                             !.pos = IF r.err = Nil THEN @ + r.n ELSE @],
             n |-> r.n, err |-> r.err, data |-> SubSeq(d.in.data, 1, r.n)]

(***************************************************************************)
(* binary.Read of a fixed-size value: io.ReadFull over Decoder.Read, then  *)
(* the byte order's conversion.  The destination keeps its zero value when *)
(* the read fails.  An operator named ...Next or ...End takes the result   *)
(* of the call made just before it in the code.                            *)
(***************************************************************************)
RECURSIVE ReadFull(_, _, _, _)
ReadFullNext(r, k, n, buf) ==
    IF Panicked(r.d) THEN [d |-> r.d, err |-> Nil, buf |-> buf]
    ELSE IF r.err # Nil
         THEN [d |-> r.d,
               err |-> IF n + r.n >= k THEN Nil
                       ELSE IF n + r.n > 0 /\ r.err = EOF THEN ErrUnexpectedEOF
                       ELSE r.err,
               buf |-> buf \o r.data]
    ELSE ReadFull(r.d, k, n + r.n, buf \o r.data)

ReadFull(d, k, n, buf) ==
    IF n >= k THEN [d |-> d, err |-> Nil, buf |-> buf]
    ELSE ReadFullNext(Read(d, k - n), k, n, buf)

RECURSIVE Pow256(_)
Pow256(i) == IF i = 0 THEN 1 ELSE 256 * Pow256(i - 1)

RECURSIVE LittleEndianUint(_)
LittleEndianUint(b) ==
    IF Len(b) = 0 THEN 0 ELSE b[1] + 256 * LittleEndianUint(Drop(b, 1))

RECURSIVE BigEndianUint(_)
BigEndianUint(b) ==
    IF Len(b) = 0 THEN 0 ELSE 256 * BigEndianUint(Front(b)) + Last(b)

ByteOrderUint(bo, b) ==
    IF bo = LittleEndian THEN LittleEndianUint(b) ELSE BigEndianUint(b)

\* Two's complement of a width-byte value (TLC's integers hold 32 bits, so a
\* 4-byte value whose top bit is set is not representable and never built).
ToSigned(u, width) ==
    IF u \div Pow256(width - 1) >= 128 THEN u - 256 * Pow256(width - 1) ELSE u

\* The value binary.Read stores: an integer, or for 8 bytes the two 32-bit halves.
BinaryValue(bo, buf) ==
    IF Len(buf) <= 4 THEN ByteOrderUint(bo, buf)
    ELSE IF bo = LittleEndian
         THEN <<ByteOrderUint(bo, SubSeq(buf, 5, 8)), ByteOrderUint(bo, SubSeq(buf, 1, 4))>>
    ELSE <<ByteOrderUint(bo, SubSeq(buf, 1, 4)), ByteOrderUint(bo, SubSeq(buf, 5, 8))>>

BinaryReadEnd(r, bo) ==
    [d |-> r.d, err |-> r.err,
     v |-> IF r.err = Nil /\ ~Panicked(r.d) THEN BinaryValue(bo, r.buf) ELSE 0]

BinaryRead(d, width) ==
    IF Panicked(d) THEN [d |-> d, err |-> Nil, v |-> 0]
    ELSE BinaryReadEnd(ReadFull(d, width, 0, <<>>), d.bo)

\* "if err != nil { d.err = err }; return v"
DecodeEnd(r) ==
    [d |-> IF r.err # Nil THEN [r.d EXCEPT !.err = r.err] ELSE r.d, v |-> r.v]

DecodeFixed(d, width) == DecodeEnd(BinaryRead(d, width))

Signed(r, width) == [d |-> r.d, v |-> ToSigned(r.v, width)]

DecodeByte(d) == DecodeFixed(d, 1)

DecodeUInt32(d) == DecodeFixed(d, 4)

DecodeInt32(d) == Signed(DecodeFixed(d, 4), 4)

DecodeUInt16(d) == DecodeFixed(d, 2)

DecodeInt16(d) == Signed(DecodeFixed(d, 2), 2)

\* A float is kept as its IEEE bit pattern.
DecodeFloat32(d) == DecodeFixed(d, 4)

DecodeFloat64(d) == DecodeFixed(d, 8)

(***************************************************************************)
(* DecodeBytes: every Read call is handed the whole of v, not the unread   *)
(* rest, so a later chunk lands at the front of v again; "rem" is          *)
(* len(remaining).                                                         *)
(***************************************************************************)
RECURSIVE DecodeBytesLoop(_, _, _)
DecodeBytesNext(r, v, rem) ==
    IF Panicked(r.d) THEN [d |-> r.d, v |-> v, rem |-> rem]
    ELSE IF r.err # Nil
         THEN [d |-> [r.d EXCEPT !.err = r.err], v |-> r.data \o Drop(v, r.n),
               rem |-> rem]
    ELSE IF r.n > rem
         THEN [d |-> DoPanic(r.d, PanicSlice), v |-> r.data \o Drop(v, r.n),
               rem |-> rem]
    ELSE DecodeBytesLoop(r.d, r.data \o Drop(v, r.n), rem - r.n)

DecodeBytesLoop(d, v, rem) ==
    IF rem <= 0 THEN [d |-> d, v |-> v, rem |-> rem]
    ELSE DecodeBytesNext(Read(d, Len(v)), v, rem)

DecodeBytesEnd(r) ==
    IF Panicked(r.d) THEN [d |-> r.d, v |-> <<>>]
    ELSE IF r.rem > 0
         THEN [d |-> DoPanic([r.d EXCEPT !.err = ErrDecodeBytes], PanicDecodeBytes),
               v |-> <<>>]
    ELSE [d |-> r.d, v |-> r.v]

DecodeBytes(d, length) ==
    IF Panicked(d) THEN [d |-> d, v |-> <<>>]
    ELSE DecodeBytesEnd(DecodeBytesLoop(d, Zeros(length), length))

DecodeString(d, length) == DecodeBytes(d, length)

SkipEnd(r, bytes) ==
    IF Panicked(r.d) THEN r.d
    ELSE IF r.err # Nil THEN [r.d EXCEPT !.err = r.err]
    ELSE IF r.n # bytes THEN [r.d EXCEPT !.err = ErrSkip]
    ELSE r.d

Skip(d, bytes) ==
    IF Panicked(d) THEN d ELSE SkipEnd(Read(d, bytes), bytes)

(***************************************************************************)
(* Tags, value representations and the part of the tag dictionary the      *)
(* files below use.  A VR code and a text value are byte runs.             *)
(***************************************************************************)
TagMetaElementGroupLength == <<2, 0>>
TagMediaStorageSOPClassUID == <<2, 2>>
TagTransferSyntaxUID == <<2, 16>>
TagFileMetaInformationVersion == <<2, 1>>
TagMediaStorageSOPInstanceUID == <<2, 3>>
TagImplementationClassUID == <<2, 18>>
TagImplementationVersionName == <<2, 19>>
TagTimeOfFlight == <<24, 38741>>      \* (0018,9755)
TagInStackPosition == <<32, 36951>>   \* (0020,9057)

VR_UL == <<85, 76>>
VR_US == <<85, 83>>
VR_UI == <<85, 73>>
VR_CS == <<67, 83>>
VR_OB == <<79, 66>>
VR_OW == <<79, 87>>
VR_OF == <<79, 70>>
VR_OD == <<79, 68>>
VR_SQ == <<83, 81>>
VR_UT == <<85, 84>>
VR_UN == <<85, 78>>
VR_SH == <<83, 72>>

LongFormVRs == {VR_OB, VR_OW, VR_OF, VR_OD, VR_SQ, VR_UT, VR_UN}
OpaqueVRs == {VR_OB, VR_OW, VR_UN}

MagicDICM == <<68, 73, 67, 77>>
ImplicitVRLittleEndianUID ==
    <<49, 46, 50, 46, 56, 52, 48, 46, 49, 48, 48, 48, 56, 46, 49, 46, 50>>
ExplicitVRLittleEndianUID == ImplicitVRLittleEndianUID \o <<46, 49>>
ExplicitVRBigEndianUID == ImplicitVRLittleEndianUID \o <<46, 50>>
UnknownUID == <<49, 46, 50, 46, 51>>

LookupTag(tag) ==
    IF tag = TagMetaElementGroupLength THEN [err |-> Nil, VR |-> VR_UL]
    ELSE IF tag = TagMediaStorageSOPClassUID THEN [err |-> Nil, VR |-> VR_UI]
    ELSE IF tag = TagTransferSyntaxUID THEN [err |-> Nil, VR |-> VR_UI]
    ELSE IF tag = TagTimeOfFlight THEN [err |-> Nil, VR |-> VR_CS]
    ELSE IF tag = TagInStackPosition THEN [err |-> Nil, VR |-> VR_UL]
    ELSE IF tag = TagFileMetaInformationVersion THEN [err |-> Nil, VR |-> VR_OB]
    ELSE IF tag = TagMediaStorageSOPInstanceUID THEN [err |-> Nil, VR |-> VR_UI]
    ELSE IF tag = TagImplementationClassUID THEN [err |-> Nil, VR |-> VR_UI]
    ELSE IF tag = TagImplementationVersionName THEN [err |-> Nil, VR |-> VR_SH]
    ELSE [err |-> "unknown tag", VR |-> VR_UN]

ParseTransferSyntaxUID(uid) ==
    IF uid = ImplicitVRLittleEndianUID
    THEN [bo |-> LittleEndian, implicit |-> ImplicitVR, err |-> Nil]
    ELSE IF uid = ExplicitVRLittleEndianUID
    THEN [bo |-> LittleEndian, implicit |-> ExplicitVR, err |-> Nil]
    ELSE IF uid = ExplicitVRBigEndianUID
    THEN [bo |-> BigEndian, implicit |-> ExplicitVR, err |-> Nil]
    ELSE [bo |-> LittleEndian, implicit |-> ExplicitVR,
          err |-> "unsupported transfer syntax"]

(***************************************************************************)
(* Text values: backslash-separated fields, each trimmed of spaces and     *)
(* NUL padding.                                                            *)
(***************************************************************************)
Backslash == 92

IsPad(b) == b = 32 \/ b = 0

RECURSIVE TrimLeft(_)
TrimLeft(s) == IF Len(s) > 0 /\ IsPad(s[1]) THEN TrimLeft(Drop(s, 1)) ELSE s

RECURSIVE TrimRight(_)
TrimRight(s) == IF Len(s) > 0 /\ IsPad(Last(s)) THEN TrimRight(Front(s)) ELSE s

Trim(s) == TrimLeft(TrimRight(s))

RECURSIVE SplitFields(_, _)
SplitFields(s, cur) ==
    IF Len(s) = 0 THEN <<cur>>
    ELSE IF s[1] = Backslash THEN <<cur>> \o SplitFields(Drop(s, 1), <<>>)
    ELSE SplitFields(Drop(s, 1), Append(cur, s[1]))

TextValues(bytes) ==
    LET f == SplitFields(Trim(bytes), <<>>) IN
    [i \in 1..Len(f) |-> [t |-> "string", v |-> Trim(f[i])]]

(***************************************************************************)
(* ReadDataElement: one element at the cursor.  The files below hold no    *)
(* sequences, items or undefined lengths, so those branches are left out.  *)
(***************************************************************************)
RECURSIVE ReadNumbers(_, _, _, _)
ReadNumbersNext(r, count, width, acc) ==
    ReadNumbers(r.d, count - 1, width,
                Append(acc, [t |-> IF width = 4 THEN "uint32" ELSE "uint16",
                             v |-> r.v]))

ReadNumbers(d, count, width, acc) ==
    IF count <= 0 \/ Panicked(d) THEN [d |-> d, v |-> acc]
    ELSE ReadNumbersNext(DecodeFixed(d, width), count, width, acc)

TagOf(group, e) == [d |-> e.d, tag |-> <<group, e.v>>]

ReadTagElement(g) == TagOf(g.v, DecodeUInt16(g.d))

ReadTag(d) == ReadTagElement(DecodeUInt16(d))

HeaderOf(vr, l) == [d |-> l.d, vr |-> vr, vl |-> l.v]

ReadExplicitLength(vr) ==
    IF Panicked(vr.d) THEN [d |-> vr.d, vr |-> <<>>, vl |-> 0]
    ELSE IF vr.v \in LongFormVRs
         THEN HeaderOf(vr.v, DecodeUInt32(Skip(vr.d, 2)))
    ELSE HeaderOf(vr.v, DecodeUInt16(vr.d))

ReadExplicit(d, tag) == ReadExplicitLength(DecodeString(d, 2))

ReadImplicit(d, tag) == HeaderOf(LookupTag(tag).VR, DecodeUInt32(d))

OpaqueValue(b) == [d |-> b.d, v |-> <<[t |-> "bytes", v |-> b.v]>>]

TextValue(s) == [d |-> s.d, v |-> IF Panicked(s.d) THEN <<>> ELSE TextValues(s.v)]

ReadValue(d, vr, vl) ==
    IF vr = VR_UL THEN ReadNumbers(d, vl \div 4, 4, <<>>)
    ELSE IF vr = VR_US THEN ReadNumbers(d, vl \div 2, 2, <<>>)
    ELSE IF vr \in OpaqueVRs THEN OpaqueValue(DecodeBytes(d, vl))
    ELSE TextValue(DecodeString(d, vl))

ElementOf(tag, vr, vl, val) ==
    [d |-> val.d, elem |-> [Tag |-> tag, Vr |-> vr, Vl |-> vl, Value |-> val.v]]

ReadElementValue(tag, h) == ElementOf(tag, h.vr, h.vl, ReadValue(h.d, h.vr, h.vl))

ReadElementHeader(t) ==
    ReadElementValue(t.tag, IF t.d.implicit = ImplicitVR THEN ReadImplicit(t.d, t.tag)
                            ELSE ReadExplicit(t.d, t.tag))

ReadDataElement(d) == ReadElementHeader(ReadTag(d))

GetUInt32(elem) ==
    IF Len(elem.Value) = 1 /\ elem.Value[1].t = "uint32"
    THEN [v |-> elem.Value[1].v, err |-> Nil]
    ELSE [v |-> 0, err |-> "element is not a single uint32"]

GetString(elem) ==
    IF Len(elem.Value) = 1 /\ elem.Value[1].t = "string"
    THEN [v |-> elem.Value[1].v, err |-> Nil]
    ELSE [v |-> <<>>, err |-> "element is not a single string"]

LookupElementByTag(elems, tag) ==
    LET hits == {i \in 1..Len(elems) : elems[i].Tag = tag} IN
    IF hits = {} THEN [found |-> FALSE, err |-> "Could not find element"]
    ELSE [found |-> TRUE, err |-> Nil,
          elem |-> elems[CHOOSE i \in hits : \A j \in hits : i <= j]]

(***************************************************************************)
(* Encoding of one element (definite lengths only), used to lay out the    *)
(* files that are parsed.                                                  *)
(***************************************************************************)
PutUint(bo, n, width) ==
    IF bo = LittleEndian
    THEN [i \in 1..width |-> (n \div Pow256(i - 1)) % 256]
    ELSE [i \in 1..width |-> (n \div Pow256(width - i)) % 256]

RECURSIVE EncodeValues(_, _, _)
EncodeValues(bo, vals, i) ==
    IF i > Len(vals) THEN <<>>
    ELSE (IF vals[i].t = "uint32" THEN PutUint(bo, vals[i].v, 4)
          ELSE IF vals[i].t = "uint16" THEN PutUint(bo, vals[i].v, 2)
          ELSE IF vals[i].t = "string"
               THEN (IF i > 1 THEN <<Backslash>> ELSE <<>>) \o vals[i].v
          ELSE vals[i].v)
         \o EncodeValues(bo, vals, i + 1)

\* Text values are padded to an even length; opaque bytes are written as given.
PadEven(vr, bytes) ==
    IF Len(bytes) % 2 = 0 \/ vr \in OpaqueVRs THEN bytes
    ELSE Append(bytes, IF vr = VR_UI THEN 0 ELSE 32)

EncodeDataElement(bo, implicit, elem) ==
    LET vr == IF elem.Vr = <<>> THEN LookupTag(elem.Tag).VR ELSE elem.Vr
        body == PadEven(vr, EncodeValues(bo, elem.Value, 1))
        head == PutUint(bo, elem.Tag[1], 2) \o PutUint(bo, elem.Tag[2], 2)
    IN IF implicit = ImplicitVR
       THEN head \o PutUint(bo, Len(body), 4) \o body
       ELSE IF vr \in LongFormVRs
            THEN head \o vr \o <<0, 0>> \o PutUint(bo, Len(body), 4) \o body
       ELSE head \o vr \o PutUint(bo, Len(body), 2) \o body

(***************************************************************************)
(* Encoder (buffer.go lines 10-59): the bytes written so far, the byte     *)
(* order and the latched error.  The VR mode and the saved transfer        *)
(* syntaxes are the fields the callers in dicom.go and in the test rely    *)
(* on (NewEncoder(bo, implicit), PushTransferSyntax, PopTransferSyntax).   *)
(* Writes to a bytes.Buffer do not fail.                                   *)
(***************************************************************************)
NewEncoder(bo, implicit) ==
    [err |-> Nil, buf |-> <<>>, bo |-> bo, implicit |-> implicit,
     oldBos |-> <<>>, oldImplicits |-> <<>>]

EncoderSetError(e, err) == IF e.err = Nil THEN [e EXCEPT !.err = err] ELSE e

EncoderFinish(e) == [bytes |-> e.buf, err |-> e.err]

EncodeByte(e, v) == [e EXCEPT !.buf = @ \o PutUint(e.bo, v, 1)]

EncodeUInt16(e, v) == [e EXCEPT !.buf = @ \o PutUint(e.bo, v, 2)]

EncodeUInt32(e, v) == [e EXCEPT !.buf = @ \o PutUint(e.bo, v, 4)]

EncodeString(e, v) == [e EXCEPT !.buf = @ \o v]

EncodeZeros(e, len) == [e EXCEPT !.buf = @ \o Zeros(len)]

\* EncodeBytes dropping the last byte of what it is given.
EncodeBytesShort(e, v) == [e EXCEPT !.buf = @ \o Front(v)]

EncodeBytes(e, v) == [e EXCEPT !.buf = @ \o v]

EncoderPushTransferSyntax(e, bo, implicit) ==
    [e EXCEPT !.oldBos = Append(@, e.bo), !.oldImplicits = Append(@, e.implicit),
              !.bo = bo, !.implicit = implicit]

EncoderPopTransferSyntax(e) ==
    [e EXCEPT !.bo = Last(e.oldBos), !.implicit = Last(e.oldImplicits),
              !.oldBos = Front(@), !.oldImplicits = Front(@)]

\* EncodeDataElement(e, &elem): the element laid out under e's transfer syntax.
EncodeElement(e, elem) == EncodeBytes(e, EncodeDataElement(e.bo, e.implicit, elem))

(***************************************************************************)
(* Bounds of the model.                                                    *)
(***************************************************************************)
MaxData == 2       \* data elements in a file
MaxDrop == 90      \* bytes cut off the end of a file
MaxChunk == 3      \* bytes a chunked reader hands out per call
MaxDecLen == 5     \* bytes behind a stand-alone Decoder
MaxArg == 3        \* length argument of DecodeBytes, Skip, PushLimit
MaxDepth == 2      \* pushes not yet popped on a stand-alone Decoder
MaxSeq == 2        \* elements encoded and read back in one round trip
MaxZeros == 2      \* calls a reader answers with (0, nil) before it hands out data

PreambleLen == 128
MagicLen == 4

(***************************************************************************)
(* The files that are parsed.  cfg describes one input: the transfer       *)
(* syntax named in the meta group, the magic, the shape of the first       *)
(* element (hv), an optional second meta element, the number of data       *)
(* elements, the bytes cut off the end, the length declared to Parse and   *)
(* the reader's behaviour.                                                 *)
(***************************************************************************)
MkElem(tag, vr, values) ==
    [Tag |-> tag, Vr |-> vr,
     Vl |-> Len(PadEven(vr, EncodeValues(LittleEndian, values, 1))),
     Value |-> values]

Str(s) == [t |-> "string", v |-> s]
U32(n) == [t |-> "uint32", v |-> n]
U16(n) == [t |-> "uint16", v |-> n]

SupportedUIDs ==
    {ImplicitVRLittleEndianUID, ExplicitVRLittleEndianUID, ExplicitVRBigEndianUID}

MetaBody(cfg) ==
    (IF cfg.extra
     THEN <<MkElem(TagMediaStorageSOPClassUID, VR_UI, <<Str(UnknownUID)>>)>>
     ELSE <<>>)
    \o (IF cfg.hv = "nots" THEN <<>>
        ELSE <<MkElem(TagTransferSyntaxUID, VR_UI, <<Str(cfg.ts)>>)>>)

DataElem(i) ==
    IF i % 2 = 1 THEN MkElem(TagTimeOfFlight, VR_CS, <<Str(<<67, 84>>)>>)
    ELSE MkElem(TagInStackPosition, VR_UL, <<U32(1234), U32(2345)>>)

DataBody(cfg) == [i \in 1..cfg.nData |-> DataElem(i)]

RECURSIVE EncodeAll(_, _, _, _)
EncodeAll(bo, implicit, elems, i) ==
    IF i > Len(elems) THEN <<>>
    ELSE EncodeDataElement(bo, implicit, elems[i]) \o EncodeAll(bo, implicit, elems, i + 1)

MetaBytes(cfg) == EncodeAll(LittleEndian, ExplicitVR, MetaBody(cfg), 1)

DataBytes(cfg) ==
    LET ts == ParseTransferSyntaxUID(cfg.ts) IN
    EncodeAll(ts.bo, ts.implicit, DataBody(cfg), 1)

MetaLengthElem(cfg) ==
    LET n == Len(MetaBytes(cfg)) IN
    IF cfg.hv = "wrongtag" THEN MkElem(TagInStackPosition, VR_UL, <<U32(n)>>)
    ELSE IF cfg.hv = "illtyped" THEN MkElem(TagMetaElementGroupLength, VR_US, <<U16(n)>>)
    ELSE IF cfg.hv = "biglen" THEN MkElem(TagMetaElementGroupLength, VR_UL, <<U32(n + 2)>>)
    ELSE IF cfg.hv = "smalllen" THEN MkElem(TagMetaElementGroupLength, VR_UL, <<U32(n - 2)>>)
    ELSE IF cfg.hv = "overlen"
         THEN MkElem(TagMetaElementGroupLength, VR_UL, <<U32(n + Len(DataBytes(cfg)))>>)
    ELSE MkElem(TagMetaElementGroupLength, VR_UL, <<U32(n)>>)

HeaderBytes(cfg) ==
    Zeros(PreambleLen)
    \o (IF cfg.magic THEN MagicDICM ELSE <<68, 73, 67, 79>>)
    \o EncodeDataElement(LittleEndian, ExplicitVR, MetaLengthElem(cfg))

WholeFile(cfg) == HeaderBytes(cfg) \o MetaBytes(cfg) \o DataBytes(cfg)

CutLen(cfg) ==
    IF Len(WholeFile(cfg)) > cfg.drop THEN Len(WholeFile(cfg)) - cfg.drop ELSE 0

FileBytes(cfg) == SubSeq(WholeFile(cfg), 1, CutLen(cfg))

\* The byte count handed to Parse.
DeclaredLen(cfg) ==
    IF cfg.declared = "orig" THEN Len(WholeFile(cfg))
    ELSE IF cfg.declared = "meta" THEN Len(HeaderBytes(cfg)) + Len(MetaBytes(cfg))
    ELSE CutLen(cfg)

\* Every element of the file, as a parse has to return it.
AllElems(cfg) == <<MetaLengthElem(cfg)>> \o MetaBody(cfg) \o DataBody(cfg)

NumMeta(cfg) == 1 + Len(MetaBody(cfg))

\* Offset of the end of the i-th element of the file.
RECURSIVE ElemEnd(_, _)
ElemEnd(cfg, i) ==
    IF i = 0 THEN PreambleLen + MagicLen
    ELSE ElemEnd(cfg, i - 1) +
         (IF i <= NumMeta(cfg)
          THEN Len(EncodeDataElement(LittleEndian, ExplicitVR, AllElems(cfg)[i]))
          ELSE LET ts == ParseTransferSyntaxUID(cfg.ts) IN
               Len(EncodeDataElement(ts.bo, ts.implicit, AllElems(cfg)[i])))

BaseCfg ==
    [ts |-> ExplicitVRLittleEndianUID, magic |-> TRUE, hv |-> "ok", extra |-> FALSE,
     nData |-> 0, drop |-> 0, declared |-> "exact", chunk |-> 0, eager |-> FALSE]

\* Well-formed files, whole or cut anywhere, with the cut or the original length declared.
CutConfigs ==
    {[BaseCfg EXCEPT !.ts = ts, !.extra = x, !.nData = n, !.drop = k, !.declared = dl] :
        ts \in SupportedUIDs, x \in BOOLEAN, n \in 0..MaxData, k \in 0..MaxDrop,
        dl \in {"exact", "orig"}}

\* Whole files with a malformed header.
BadConfigs ==
    {[BaseCfg EXCEPT !.ts = ts, !.extra = x, !.nData = n, !.hv = hv] :
        ts \in SupportedUIDs, x \in BOOLEAN, n \in 0..MaxData,
        hv \in {"wrongtag", "illtyped", "nots", "biglen", "smalllen"}}
    \cup {[BaseCfg EXCEPT !.magic = FALSE, !.nData = n] : n \in 0..MaxData}
    \cup {[BaseCfg EXCEPT !.ts = UnknownUID, !.nData = n] : n \in 0..MaxData}

\* Whole well-formed files behind a reader that chunks or reports EOF early.
ReaderConfigs ==
    {[BaseCfg EXCEPT !.ts = ts, !.nData = n, !.chunk = c, !.eager = e] :
        ts \in SupportedUIDs, n \in 0..MaxData, c \in 0..MaxChunk, e \in BOOLEAN}

\* A reader that holds more than the declared bytes, and a group length that says so.
OverConfigs ==
    {[BaseCfg EXCEPT !.nData = n, !.hv = hv, !.declared = "meta"] :
        n \in 1..MaxData, hv \in {"ok", "overlen"}}

Configs == CutConfigs \cup BadConfigs \cup ReaderConfigs \cup OverConfigs

WellFormed(c) ==
    /\ c.magic /\ c.hv = "ok" /\ c.ts \in SupportedUIDs
    /\ c.drop = 0 /\ c.declared \in {"exact", "orig"}

(***************************************************************************)
(* State.  d is the Decoder; pc the position in Parse/ParseFileHeader (or  *)
(* "decoder" when the Decoder is driven directly); cfg the input parsed;   *)
(* metaElems and file are Parse's locals, ret what Parse returned; op the  *)
(* last Decoder call made directly (name, argument, returned value).       *)
(* hist is history: dataCalls counts ReadDataElement calls of the dataset  *)
(* loop, errIn is the phase in which the error was first latched, gLimits  *)
(* and gSyntax record what was in force before each push not yet popped,   *)
(* firstErr the error of the earliest failing call.                        *)
(***************************************************************************)
VARIABLES d, pc, cfg, metaElems, file, ret, op, hist

vars == <<d, pc, cfg, metaElems, file, ret, op, hist>>

NilFile == [isNil |-> TRUE, Elements |-> <<>>]
SomeFile(elems) == [isNil |-> FALSE, Elements |-> elems]

NoOp == [name |-> "none", arg |-> 0, ret |-> 0]
NoHist ==
    [dataCalls |-> 0, errIn |-> "none", gLimits |-> <<>>, gSyntax |-> <<>>,
     firstErr |-> Nil]
NoRet == [file |-> NilFile, err |-> Nil]

\* Parse, lines 54-57: the Decoder Parse builds over its arguments.
ParseDecoder(c) ==
    NewDecoder([data |-> FileBytes(c), chunk |-> c.chunk, eager |-> c.eager,
                zeros |-> 0, stuck |-> FALSE],
               DeclaredLen(c), LittleEndian, ExplicitVR)

Init ==
    /\ cfg \in Configs
    /\ d = ParseDecoder(cfg)
    /\ pc = "ParseFileHeader"
    /\ metaElems = <<>>
    /\ file = NilFile
    /\ ret = NoRet
    /\ op = NoOp
    /\ hist = NoHist

\* The phase in which the error is first latched.
Latched(h, nd, phase) ==
    [h EXCEPT !.errIn = IF @ = "none" /\ nd.err # Nil THEN phase ELSE @]

\* ParseFileHeader without the deferred PopLimit of line 125.
HeaderReturnNoPopLimit(dd, limitPushed) == PopTranslationSyntax(dd)

\* The deferred calls of ParseFileHeader, run on return.
HeaderReturn(dd, limitPushed) ==
    IF limitPushed THEN PopTranslationSyntax(PopLimit(dd))
    ELSE PopTranslationSyntax(dd)

\* ParseFileHeader, lines 94-96.
HeaderBeginStep(nd) ==
    /\ d' = nd
    /\ hist' = Latched(hist, nd, "header")
    /\ pc' = IF Panicked(nd) THEN "panic" ELSE "magic"
    /\ UNCHANGED <<cfg, metaElems, file, ret, op>>

HeaderBegin ==
    /\ pc = "ParseFileHeader"
    /\ HeaderBeginStep(Skip(PushTranslationSyntax(d, LittleEndian, ExplicitVR),
                            PreambleLen))

\* Lines 99-102 without the SetError of line 100.
MagicCheckedNoError(s) ==
    IF Panicked(s.d) \/ s.v = MagicDICM THEN s.d
    ELSE HeaderReturn(s.d, FALSE)

\* ParseFileHeader, lines 99-102: the decoder after the magic is compared.
MagicChecked(s) ==
    IF Panicked(s.d) \/ s.v = MagicDICM THEN s.d
    ELSE HeaderReturn(SetError(s.d, ErrBadMagic), FALSE)

CheckMagicStep(s) ==
    /\ d' = MagicChecked(s)
    /\ hist' = Latched(hist, d', "header")
    /\ pc' = IF Panicked(s.d) THEN "panic"
             ELSE IF s.v = MagicDICM THEN "metaLength" ELSE "Parse"
    /\ UNCHANGED <<cfg, metaElems, file, ret, op>>

CheckMagic ==
    /\ pc = "magic"
    /\ CheckMagicStep(DecodeString(d, MagicLen))

\* Lines 112-125 with the limit of line 124 set to all that is left of the
\* enclosing limit instead of the group length read.
MetaLengthValueRest(d1, elem, m) ==
    IF m.err # Nil
    THEN [d |-> HeaderReturn(SetError(d1, ErrMetaLengthType), FALSE),
          elems |-> <<>>, loop |-> FALSE]
    ELSE IF DLen(d1) <= 0
    THEN [d |-> HeaderReturn(SetError(d1, ErrNoDataElement), FALSE),
          elems |-> <<>>, loop |-> FALSE]
    ELSE [d |-> PushLimit(d1, DLen(d1)), elems |-> <<elem>>, loop |-> TRUE]

\* ParseFileHeader, lines 105-125: the decoder, the list and whether the loop is entered.
MetaLengthValue(d1, elem, m) ==
    IF m.err # Nil
    THEN [d |-> HeaderReturn(SetError(d1, ErrMetaLengthType), FALSE),
          elems |-> <<>>, loop |-> FALSE]
    ELSE IF DLen(d1) <= 0
    THEN [d |-> HeaderReturn(SetError(d1, ErrNoDataElement), FALSE),
          elems |-> <<>>, loop |-> FALSE]
    ELSE [d |-> PushLimit(d1, m.v), elems |-> <<elem>>, loop |-> TRUE]

MetaLengthCheck(r) ==
    IF Panicked(r.d) THEN [d |-> r.d, elems |-> <<>>, loop |-> FALSE]
    ELSE IF r.d.err # Nil
         THEN [d |-> HeaderReturn(r.d, FALSE), elems |-> <<>>, loop |-> FALSE]
    ELSE MetaLengthValue(IF r.elem.Tag # TagMetaElementGroupLength
                         THEN SetError(r.d, ErrNoMetaLength) ELSE r.d,
                         r.elem, GetUInt32(r.elem))

MetaLength(dd) == MetaLengthCheck(ReadDataElement(dd))

ReadMetaLengthStep(r) ==
    /\ d' = r.d
    /\ metaElems' = r.elems
    /\ hist' = Latched(hist, r.d, "header")
    /\ pc' = IF Panicked(r.d) THEN "panic"
             ELSE IF r.loop THEN "metaLoop" ELSE "Parse"
    /\ UNCHANGED <<cfg, file, ret, op>>

ReadMetaLength ==
    /\ pc = "metaLength"
    /\ ReadMetaLengthStep(MetaLength(d))

\* ParseFileHeader, line 126: the loop condition.
MetaLoopCond(dd) == DLen(dd) > 0 /\ Error(dd) = Nil

\* ParseFileHeader, lines 126-129: one iteration.
MetaLoopStep(r) ==
    /\ d' = r.d
    /\ metaElems' = IF Panicked(r.d) THEN metaElems ELSE Append(metaElems, r.elem)
    /\ hist' = Latched(hist, r.d, "header")
    /\ pc' = IF Panicked(r.d) THEN "panic" ELSE "metaLoop"
    /\ UNCHANGED <<cfg, file, ret, op>>

MetaLoopBody ==
    /\ pc = "metaLoop"
    /\ MetaLoopCond(d)
    /\ MetaLoopStep(ReadDataElement(d))

\* ParseFileHeader, lines 126 and 130: the loop ends, the deferred pops run.
MetaLoopExit ==
    /\ pc = "metaLoop"
    /\ ~MetaLoopCond(d)
    /\ d' = HeaderReturn(d, TRUE)
    /\ pc' = IF Panicked(d') THEN "panic" ELSE "Parse"
    /\ UNCHANGED <<cfg, metaElems, file, ret, op, hist>>

\* Lines 60-79 with the transfer syntax found left unused: the Decoder keeps
\* the syntax it was created with.
ResolveSyntaxUnused(dd, elems) ==
    IF Error(dd) # Nil THEN [err |-> Error(dd), bo |-> dd.bo, implicit |-> dd.implicit]
    ELSE [err |-> LookupElementByTag(elems, TagTransferSyntaxUID).err,
          bo |-> dd.bo, implicit |-> dd.implicit]

\* Parse, lines 60-79: the transfer syntax of the dataset, or the error returned.
ResolveSyntax(dd, elems) ==
    IF Error(dd) # Nil THEN [err |-> Error(dd), bo |-> dd.bo, implicit |-> dd.implicit]
    ELSE LET e == LookupElementByTag(elems, TagTransferSyntaxUID) IN
         IF e.err # Nil THEN [err |-> e.err, bo |-> dd.bo, implicit |-> dd.implicit]
         ELSE LET u == GetString(e.elem) IN
              IF u.err # Nil THEN [err |-> u.err, bo |-> dd.bo, implicit |-> dd.implicit]
              ELSE ParseTransferSyntaxUID(u.v)

ParseAfterHeader ==
    /\ pc = "Parse"
    /\ LET t == ResolveSyntax(d, metaElems) IN
       IF t.err # Nil
       THEN /\ ret' = [file |-> NilFile, err |-> t.err]
            /\ pc' = "done"
            /\ UNCHANGED <<d, file>>
       ELSE /\ d' = [d EXCEPT !.bo = t.bo, !.implicit = t.implicit]
            /\ file' = SomeFile(metaElems)
            /\ pc' = "dataLoop"
            /\ UNCHANGED ret
    /\ UNCHANGED <<cfg, metaElems, op, hist>>

\* The loop condition of line 81 without its Len() test.
DataLoopCondNoLimit(dd) == Error(dd) = Nil

\* Parse, line 81: the loop condition.
DataLoopCond(dd) == DLen(dd) # 0 /\ Error(dd) = Nil

\* Parse, lines 81-88: one iteration; an error latched in it ends the parse.
DataLoopStep(r) ==
    /\ d' = r.d
    /\ hist' = [Latched(hist, r.d, "data") EXCEPT !.dataCalls = @ + 1]
    /\ IF Panicked(r.d)
       THEN pc' = "panic" /\ UNCHANGED <<file, ret>>
       ELSE IF Error(r.d) # Nil
       THEN /\ pc' = "done"
            /\ ret' = [file |-> file, err |-> Finish(r.d)]
            /\ UNCHANGED file
       ELSE /\ pc' = "dataLoop"
            /\ file' = SomeFile(Append(file.Elements, r.elem))
            /\ UNCHANGED ret
    /\ UNCHANGED <<cfg, metaElems, op>>

DataLoopBody ==
    /\ pc = "dataLoop"
    /\ DataLoopCond(d)
    /\ DataLoopStep(ReadDataElement(d))

\* Parse, lines 81 and 88: the loop ends.
DataLoopExit ==
    /\ pc = "dataLoop"
    /\ ~DataLoopCond(d)
    /\ ret' = [file |-> file, err |-> Finish(d)]
    /\ pc' = "done"
    /\ UNCHANGED <<d, cfg, metaElems, file, op, hist>>

Next ==
    \/ HeaderBegin
    \/ CheckMagic
    \/ ReadMetaLength
    \/ MetaLoopBody
    \/ MetaLoopExit
    \/ ParseAfterHeader
    \/ DataLoopBody
    \/ DataLoopExit

Spec == Init /\ [][Next]_vars

(***************************************************************************)
(* The Decoder driven directly: any sequence of its methods, over a short  *)
(* byte run.  A call made after a panic does not happen.                   *)
(***************************************************************************)
DecBytes(n) == [i \in 1..n |-> i]

DecoderStart(dd) ==
    /\ d = dd
    /\ pc = "decoder"
    /\ cfg = BaseCfg
    /\ metaElems = <<>>
    /\ file = NilFile
    /\ ret = NoRet
    /\ op = NoOp
    /\ hist = NoHist

\* A Decoder over n bytes, the limit given right or off by one.
InitDecoder ==
    \E n \in 0..MaxDecLen, c \in 0..MaxChunk, e \in BOOLEAN,
       bo \in {LittleEndian, BigEndian}, lim \in 0..(MaxDecLen + 1) :
          /\ lim \in {n - 1, n, n + 1}
          /\ DecoderStart(NewDecoder([data |-> DecBytes(n), chunk |-> c, eager |-> e,
                                      zeros |-> 0, stuck |-> FALSE],
                                     lim, bo, ExplicitVR))

\* NewBytesDecoder over MaxDecLen bytes.
InitContext ==
    \E bo \in {LittleEndian, BigEndian} :
        DecoderStart(NewDecoder([data |-> DecBytes(MaxDecLen), chunk |-> 0,
                                 eager |-> FALSE, zeros |-> 0, stuck |-> FALSE],
                                MaxDecLen, bo, ExplicitVR))

Callable == pc = "decoder" /\ ~Panicked(d)

\* The error a call latches when none is latched before it.
FirstError(h, e) == [h EXCEPT !.firstErr = IF @ = Nil THEN e ELSE @]

\* A decode call: r is its result on d, r0 its result had no error been latched.
DecodeCall(name, arg, r, r0) ==
    /\ d' = r.d
    /\ op' = [name |-> name, arg |-> arg, ret |-> r.v]
    /\ hist' = FirstError(hist, r0.d.err)
    /\ UNCHANGED <<pc, cfg, metaElems, file, ret>>

Cleared(dd) == [dd EXCEPT !.err = Nil]

CallDecodeByte ==
    Callable /\ DecodeCall("DecodeByte", 0, DecodeByte(d), DecodeByte(Cleared(d)))

CallDecodeUInt16 ==
    Callable /\ DecodeCall("DecodeUInt16", 0, DecodeUInt16(d), DecodeUInt16(Cleared(d)))

CallDecodeUInt32 ==
    Callable /\ DecodeCall("DecodeUInt32", 0, DecodeUInt32(d), DecodeUInt32(Cleared(d)))

CallDecodeInt16 ==
    Callable /\ DecodeCall("DecodeInt16", 0, DecodeInt16(d), DecodeInt16(Cleared(d)))

CallDecodeInt32 ==
    Callable /\ DecodeCall("DecodeInt32", 0, DecodeInt32(d), DecodeInt32(Cleared(d)))

CallDecodeFloat32 ==
    Callable /\ DecodeCall("DecodeFloat32", 0, DecodeFloat32(d), DecodeFloat32(Cleared(d)))

CallDecodeFloat64 ==
    Callable /\ DecodeCall("DecodeFloat64", 0, DecodeFloat64(d), DecodeFloat64(Cleared(d)))

CallDecodeBytes ==
    /\ Callable
    /\ \E n \in 0..MaxArg :
          DecodeCall("DecodeBytes", n, DecodeBytes(d, n), DecodeBytes(Cleared(d), n))

CallDecodeString ==
    /\ Callable
    /\ \E n \in 0..MaxArg :
          DecodeCall("DecodeString", n, DecodeString(d, n), DecodeString(Cleared(d), n))

CallSkip ==
    /\ Callable
    /\ \E n \in 0..MaxArg :
          DecodeCall("Skip", n, [d |-> Skip(d, n), v |-> 0],
                     [d |-> Skip(Cleared(d), n), v |-> 0])

CallSetError ==
    /\ Callable
    /\ d' = SetError(d, ErrUser)
    /\ op' = [name |-> "SetError", arg |-> 0, ret |-> 0]
    /\ hist' = FirstError(hist, ErrUser)
    /\ UNCHANGED <<pc, cfg, metaElems, file, ret>>

\* Finish leaves the Decoder as it is; op records what it returned.
CallFinish ==
    /\ Callable
    /\ op' = [name |-> "Finish", arg |-> 0, ret |-> Finish(d)]
    /\ UNCHANGED <<d, pc, cfg, metaElems, file, ret, hist>>

CallPushLimit ==
    /\ Callable
    /\ Len(d.oldLimits) + Len(d.oldBos) < MaxDepth
    /\ \E n \in (-1)..MaxArg :
          /\ d' = PushLimit(d, n)
          /\ op' = [name |-> "PushLimit", arg |-> n, ret |-> 0]
          /\ hist' = IF n >= 0 THEN [hist EXCEPT !.gLimits = Append(@, d.limit)]
                     ELSE hist
    /\ UNCHANGED <<pc, cfg, metaElems, file, ret>>

CallPopLimit ==
    /\ Callable
    /\ d' = PopLimit(d)
    /\ op' = [name |-> "PopLimit", arg |-> 0, ret |-> 0]
    /\ hist' = [hist EXCEPT !.gLimits = Front(@)]
    /\ UNCHANGED <<pc, cfg, metaElems, file, ret>>

CallPushTranslationSyntax ==
    /\ Callable
    /\ Len(d.oldLimits) + Len(d.oldBos) < MaxDepth
    /\ \E bo \in {LittleEndian, BigEndian}, im \in {ImplicitVR, ExplicitVR} :
          /\ d' = PushTranslationSyntax(d, bo, im)
          /\ op' = [name |-> "PushTranslationSyntax", arg |-> <<bo, im>>, ret |-> 0]
          /\ hist' = [hist EXCEPT !.gSyntax = Append(@, <<d.bo, d.implicit>>)]
    /\ UNCHANGED <<pc, cfg, metaElems, file, ret>>

CallPopTranslationSyntax ==
    /\ Callable
    /\ d' = PopTranslationSyntax(d)
    /\ op' = [name |-> "PopTranslationSyntax", arg |-> 0, ret |-> 0]
    /\ hist' = [hist EXCEPT !.gSyntax = Front(@)]
    /\ UNCHANGED <<pc, cfg, metaElems, file, ret>>

NextDecoder ==
    \/ CallDecodeByte
    \/ CallDecodeUInt16
    \/ CallDecodeUInt32
    \/ CallDecodeInt16
    \/ CallDecodeInt32
    \/ CallDecodeFloat32
    \/ CallDecodeFloat64
    \/ CallDecodeBytes
    \/ CallDecodeString
    \/ CallSkip
    \/ CallSetError
    \/ CallFinish

SpecDecoder == InitDecoder /\ [][NextDecoder]_vars

(***************************************************************************)
(* The context stacks: pushes and pops in any order, with reads (which     *)
(* latch an error at the limit) in between.                                *)
(***************************************************************************)
NextContext ==
    \/ CallPushLimit
    \/ CallPopLimit
    \/ CallPushTranslationSyntax
    \/ CallPopTranslationSyntax
    \/ CallDecodeByte
    \/ CallDecodeUInt16

SpecContext == InitContext /\ [][NextContext]_vars

(***************************************************************************)
(* Properties of Parse (specification Spec).                               *)
(***************************************************************************)
\* Parse has returned or has crashed.
Terminal == pc \in {"done", "panic"}

\* A file well formed but for its length, behind a plain reader.
Plain(c) ==
    /\ c.magic /\ c.hv = "ok" /\ c.ts \in SupportedUIDs
    /\ c.chunk = 0 /\ ~c.eager

NumElems(c) == Len(AllElems(c))

\* The cut of c falls at the end of one of the elements lo..hi.
CutAt(c, lo, hi) == c.drop > 0 /\ \E i \in lo..hi : CutLen(c) = ElemEnd(c, i)

\* The number of whole elements the cut leaves.
CutIndex(c) == CHOOSE i \in 0..NumElems(c) : ElemEnd(c, i) = CutLen(c)

\* c is a valid file truncated at the end of an element that is not its last,
\* and Parse is given exactly the truncated bytes.
TruncatedAtBoundary(c) ==
    Plain(c) /\ c.declared = "exact" /\ CutAt(c, 1, NumElems(c) - 1)

\* The same, the cut at or after the end of the meta group.
TruncatedInDataset(c) ==
    Plain(c) /\ c.declared = "exact" /\ CutAt(c, NumMeta(c), NumElems(c) - 1)

\* The same, the cut right after MetaElementGroupLength.
TruncatedAfterGroupLength(c) ==
    Plain(c) /\ c.declared = "exact" /\ c.drop > 0 /\ CutLen(c) = ElemEnd(c, 1)

\* C1: on every input Parse ends by returning; no execution ends in a panic
\* (no explicit panic, no failed assertion, no slice or index out of range).
C1_NoPanic == pc # "panic" /\ ~Panicked(d)

StructuralFailure(c) ==
    /\ c.chunk = 0 /\ ~c.eager /\ c.declared \in {"exact", "orig"}
    /\ \/ ~c.magic
       \/ c.hv \in {"wrongtag", "illtyped", "nots"}
       \/ c.ts = UnknownUID
       \/ c.hv = "ok" /\ CutLen(c) < ElemEnd(c, NumMeta(c))

\* C5: when the header fails structurally Parse returns a nil DicomFile and a
\* non-nil error, and no dataset element has been decoded.
C5_StructuralFailureReturnsNil ==
    (Terminal /\ StructuralFailure(cfg)) =>
        /\ pc = "done"
        /\ ret.file.isNil
        /\ ret.err # Nil
        /\ hist.dataCalls = 0

\* C6: when the error is latched while the main dataset is decoded, Parse
\* returns a non-nil error and a non-nil DicomFile holding exactly the meta
\* elements followed by the dataset elements decoded before the failure.
C6_DatasetErrorKeepsElements ==
    (Terminal /\ hist.errIn = "data") =>
        /\ pc = "done"
        /\ ret.err # Nil
        /\ ~ret.file.isNil
        /\ Len(ret.file.Elements) = Len(metaElems) + hist.dataCalls - 1
        /\ SubSeq(ret.file.Elements, 1, Len(metaElems)) = metaElems

\* C7: on every return path of ParseFileHeader (and so of Parse) the limit
\* stack and the transfer-syntax stacks are as deep as on entry, that is
\* empty, and no pop is ever made on an empty stack.
C7_StacksBalanced ==
    /\ d.panic # PanicIndex
    /\ pc \in {"Parse", "dataLoop", "done"} =>
          /\ d.oldLimits = <<>>
          /\ d.oldBos = <<>>
          /\ d.oldImplicits = <<>>

\* ParseFileHeader pushed the meta-group limit, and Parse has returned a file.
C7_Witness ==
    /\ pc = "done"
    /\ ~ret.file.isNil
    /\ Len(metaElems) > 1
    /\ d.oldLimits = <<>> /\ d.oldBos = <<>>

NonIncreasing(s) == \A i \in 1..(Len(s) - 1) : s[i] >= s[i + 1]

\* C8: while a well-formed file is parsed, the limits from the outermost to
\* the active one never increase, and the position never passes the active
\* limit.
C8_LimitsNested ==
    WellFormed(cfg) =>
        /\ NonIncreasing(d.oldLimits \o <<d.limit>>)
        /\ d.pos <= d.limit

\* Inside the meta group of a well-formed file that has a dataset after it:
\* a limit strictly below the outer one is active and elements have been read
\* under it.
C8_Witness ==
    /\ WellFormed(cfg)
    /\ pc = "metaLoop"
    /\ Len(d.oldLimits) = 1
    /\ d.limit < d.oldLimits[1]
    /\ metaElems # <<>>
    /\ d.pos = d.limit

(***************************************************************************)
(* Properties of the Decoder driven directly (SpecDecoder, SpecContext).   *)
(***************************************************************************)
FixedDecodes ==
    {"DecodeByte", "DecodeUInt16", "DecodeUInt32", "DecodeInt16", "DecodeInt32",
     "DecodeFloat32", "DecodeFloat64"}

Decodes == FixedDecodes \cup {"DecodeBytes", "DecodeString", "Skip"}

\* C2: once an error is latched every decode call is a no-op: it reads
\* nothing from the underlying reader, leaves Pos() as it is, and a
\* fixed-width decode returns zero.  (Calls that crash are C1's matter, the
\* error they leave C3's; both are left aside here.)
C2_LatchedDecodeIsNoOp ==
    [][(d.err # Nil /\ op'.name \in Decodes /\ ~Panicked(d')) =>
          /\ d'.in = d.in
          /\ Pos(d') = Pos(d)
          /\ op'.name \in FixedDecodes => op'.ret = 0]_vars

\* C3: the error latched is the error of the first call that failed; no later
\* failure and no later SetError replaces it.
C3_FirstErrorKept == ~Panicked(d) => d.err = hist.firstErr

\* All of the Decoder but the limit and its stack.
BesideLimit(dd) == [dd EXCEPT !.limit = 0, !.oldLimits = <<>>]

\* C9: PushLimit(n) makes the limit Pos()+n, PopLimit puts back exactly the
\* limit that was active before the matching PushLimit, and neither changes
\* the position, the byte order, the VR mode or the latched error.
C9_LimitScope ==
    [][/\ (op'.name = "PushLimit" /\ ~Panicked(d')) =>
             /\ d'.limit = Pos(d) + op'.arg
             /\ d'.oldLimits = Append(d.oldLimits, d.limit)
             /\ BesideLimit(d') = BesideLimit(d)
       /\ (op'.name = "PopLimit" /\ ~Panicked(d')) =>
             /\ d'.limit = Last(hist.gLimits)
             /\ hist'.gLimits = d'.oldLimits
             /\ BesideLimit(d') = BesideLimit(d)]_vars

\* The inner of two nested limits has been popped after bytes were read under
\* it, and the outer, a different one, is active again.
C9_Witness ==
    /\ op.name = "PopLimit"
    /\ ~Panicked(d)
    /\ Len(d.oldLimits) = 1
    /\ d.limit < d.oldLimits[1]
    /\ 0 < d.pos /\ d.pos < d.limit

\* All of the Decoder but the transfer syntax and its stacks.
BesideSyntax(dd) ==
    [dd EXCEPT !.bo = LittleEndian, !.implicit = ImplicitVR,
               !.oldBos = <<>>, !.oldImplicits = <<>>]

\* C10: PushTranslationSyntax(bo, implicit) makes bo and implicit the byte
\* order and VR mode, PopTranslationSyntax puts back exactly the pair that was
\* active before the matching push, and neither changes the position, the
\* limit or the latched error.
C10_SyntaxScope ==
    [][/\ (op'.name = "PushTranslationSyntax" /\ ~Panicked(d')) =>
             /\ <<d'.bo, d'.implicit>> = op'.arg
             /\ BesideSyntax(d') = BesideSyntax(d)
       /\ (op'.name = "PopTranslationSyntax" /\ ~Panicked(d')) =>
             /\ <<d'.bo, d'.implicit>> = Last(hist.gSyntax)
             /\ Len(d'.oldBos) = Len(hist'.gSyntax)
             /\ Len(d'.oldImplicits) = Len(hist'.gSyntax)
             /\ BesideSyntax(d') = BesideSyntax(d)]_vars

\* The inner of two nested transfer syntaxes has been popped and the outer,
\* which differs from it in byte order and VR mode, is active again under the
\* syntax the Decoder was built with.
C10_Witness ==
    /\ op.name = "PopTranslationSyntax"
    /\ ~Panicked(d)
    /\ Len(d.oldBos) = 1
    /\ d.implicit = ImplicitVR
    /\ d.oldImplicits[1] = ExplicitVR
    /\ d.bo # d.oldBos[1]

C12_BadMagicFirst ==
    ~cfg.magic =>
        /\ pc \in {"ParseFileHeader", "magic", "Parse", "done"}
        /\ d.pos <= PreambleLen + MagicLen
        /\ d.oldLimits = <<>> /\ d.limit = DeclaredLen(cfg)
        /\ metaElems = <<>> /\ file = NilFile /\ hist.dataCalls = 0
        /\ pc \in {"Parse", "done"} => d.err = ErrBadMagic
        /\ pc = "done" => ret = [file |-> NilFile, err |-> ErrBadMagic]

\* Parse has returned on a file with a wrong magic followed by a meta group
\* and a dataset.
C12_Witness ==
    /\ ~cfg.magic
    /\ pc = "done"
    /\ cfg.nData > 0
    /\ d.pos = PreambleLen + MagicLen
    /\ ret.err = ErrBadMagic

(***************************************************************************)
(* The round trip of testEncodeDataElement (dictionary_test.go lines       *)
(* 66-123), over any byte order and VR mode and any short sequence of      *)
(* elements: cfg holds the byte order, the VR mode and the elements, op    *)
(* what the Encoder's Finish returned, metaElems the elements read back,   *)
(* ret.err what the Decoder's Finish returned.                             *)
(***************************************************************************)
NewBytesDecoder(data, bo, implicit) ==
    NewDecoder([data |-> data, chunk |-> 0, eager |-> FALSE, zeros |-> 0,
                stuck |-> FALSE],
               Len(data), bo, implicit)

\* An element as the test builds it: the VR left to the dictionary.
Auto(tag, values) == [Tag |-> tag, Vr |-> <<>>, Vl |-> 1, Value |-> values]

RoundTripElems ==
    {Auto(TagTimeOfFlight, <<Str(<<70, 111, 111, 72, 97, 104>>)>>),     \* "FooHah"
     Auto(TagTimeOfFlight, <<Str(<<67, 84, 49>>)>>),                     \* "CT1"
     Auto(TagTimeOfFlight, <<Str(<<65>>), Str(<<66, 67>>)>>),            \* "A", "BC"
     Auto(TagInStackPosition, <<U32(1234), U32(2345)>>),
     Auto(TagInStackPosition, <<U32(7)>>),
     Auto(TagTransferSyntaxUID, <<Str(ImplicitVRLittleEndianUID)>>),
     Auto(<<9, 1>>, <<[t |-> "bytes", v |-> <<1, 2, 3>>]>>)}

RECURSIVE SeqsOf(_, _)
SeqsOf(S, n) ==
    IF n = 0 THEN {<<>>}
    ELSE SeqsOf(S, n - 1) \cup {Append(q, x) : q \in SeqsOf(S, n - 1), x \in S}

RECURSIVE EncodeElements(_, _, _)
EncodeElements(e, elems, i) ==
    IF i > Len(elems) THEN e ELSE EncodeElements(EncodeElement(e, elems[i]), elems, i + 1)

InitRoundTrip ==
    /\ cfg \in [bo : {LittleEndian, BigEndian}, implicit : {ImplicitVR, ExplicitVR},
                elems : SeqsOf(RoundTripElems, MaxSeq)]
    /\ d = NewBytesDecoder(<<>>, cfg.bo, cfg.implicit)
    /\ pc = "encode"
    /\ metaElems = <<>>
    /\ file = NilFile
    /\ ret = NoRet
    /\ op = NoOp
    /\ hist = NoHist

\* Lines 68-88: the elements are encoded and the Decoder is set over the output.
RoundTripEncodeStep(fin) ==
    /\ op' = [name |-> "Encoder.Finish", arg |-> 0, ret |-> fin]
    /\ d' = NewBytesDecoder(fin.bytes, cfg.bo, cfg.implicit)
    /\ pc' = IF fin.err = Nil THEN "decode" ELSE "failed"
    /\ UNCHANGED <<cfg, metaElems, file, ret, hist>>

RoundTripEncode ==
    /\ pc = "encode"
    /\ RoundTripEncodeStep(
           EncoderFinish(EncodeElements(NewEncoder(cfg.bo, cfg.implicit), cfg.elems, 1)))

\* Lines 89-92 and 104-107: one element is read back.
RoundTripReadStep(r) ==
    /\ d' = r.d
    /\ metaElems' = Append(metaElems, r.elem)
    /\ pc' = IF Panicked(r.d) THEN "panic"
             ELSE IF Error(r.d) # Nil THEN "failed" ELSE "decode"
    /\ UNCHANGED <<cfg, file, ret, op, hist>>

RoundTripRead ==
    /\ pc = "decode"
    /\ Len(metaElems) < Len(cfg.elems)
    /\ RoundTripReadStep(ReadDataElement(d))

\* Lines 120-122.
RoundTripFinish ==
    /\ pc = "decode"
    /\ Len(metaElems) = Len(cfg.elems)
    /\ ret' = [file |-> NilFile, err |-> Finish(d)]
    /\ pc' = "finished"
    /\ UNCHANGED <<d, cfg, metaElems, file, op, hist>>

NextRoundTrip == RoundTripEncode \/ RoundTripRead \/ RoundTripFinish

SpecRoundTrip == InitRoundTrip /\ [][NextRoundTrip]_vars

ErrEncode == "EncodeDataElement failed"

DefaultImplementationClassUID == <<49, 46, 50, 46, 56, 50, 54>>        \* "1.2.826"
DefaultImplementationVersionName == <<71, 79, 68, 73, 67, 79, 77>>     \* "GODICOM"

\* Lines 140-148: encodeSingleValue.
EncodeSingleValue(encoder, tag, v) == EncodeElement(encoder, Auto(tag, <<v>>))

\* The meta elements WriteFileHeader writes, lines 152-157.
WrittenElems(transferSyntaxUID, sopClassUID, sopInstanceUID) ==
    <<Auto(TagFileMetaInformationVersion, <<[t |-> "bytes", v |-> <<48, 32, 49>>]>>),
      Auto(TagTransferSyntaxUID, <<Str(transferSyntaxUID)>>),
      Auto(TagMediaStorageSOPClassUID, <<Str(sopClassUID)>>),
      Auto(TagMediaStorageSOPInstanceUID, <<Str(sopInstanceUID)>>),
      Auto(TagImplementationClassUID, <<Str(DefaultImplementationClassUID)>>),
      Auto(TagImplementationVersionName, <<Str(DefaultImplementationVersionName)>>)>>

\* Lines 151-157: the sub-encoder after the meta elements are encoded.
SubEncoder(elems, fails) ==
    IF fails
    THEN EncoderSetError(EncodeElements(NewEncoder(LittleEndian, ExplicitVR),
                                        Front(elems), 1), ErrEncode)
    ELSE EncodeElements(NewEncoder(LittleEndian, ExplicitVR), elems, 1)

\* Lines 165-168 with the magic of line 166 left out.
WriteFileHeaderEmitNoMagic(e, metaBytes) ==
    EncodeBytes(EncodeSingleValue(EncodeZeros(e, PreambleLen),
                                  TagMetaElementGroupLength, U32(Len(metaBytes))),
                metaBytes)

\* Lines 165-168.
WriteFileHeaderEmit(e, metaBytes) ==
    EncodeBytes(EncodeSingleValue(EncodeString(EncodeZeros(e, PreambleLen), MagicDICM),
                                  TagMetaElementGroupLength, U32(Len(metaBytes))),
                metaBytes)

\* Lines 159-168, then the deferred PopTransferSyntax of line 139.
WriteFileHeaderEnd(e, fin) ==
    EncoderPopTransferSyntax(IF fin.err # Nil THEN EncoderSetError(e, fin.err)
                             ELSE WriteFileHeaderEmit(e, fin.bytes))

WriteFileHeader(e, transferSyntaxUID, sopClassUID, sopInstanceUID, fails) ==
    WriteFileHeaderEnd(
        EncoderPushTransferSyntax(e, LittleEndian, ExplicitVR),
        EncoderFinish(SubEncoder(WrittenElems(transferSyntaxUID, sopClassUID,
                                              sopInstanceUID), fails)))

InitHeader ==
    /\ cfg \in [ts : SupportedUIDs \cup {UnknownUID},
                sopClass : {UnknownUID, ImplicitVRLittleEndianUID},
                sopInstance : {<<>>, <<49, 46, 50>>},
                fails : BOOLEAN,
                bo : {LittleEndian, BigEndian}, implicit : {ImplicitVR, ExplicitVR}]
    /\ d = NewBytesDecoder(<<>>, cfg.bo, cfg.implicit)
    /\ pc = "WriteFileHeader"
    /\ metaElems = <<>>
    /\ file = NilFile
    /\ ret = NoRet
    /\ op = NoOp
    /\ hist = NoHist

WriteHeaderStep(e) ==
    /\ op' = [name |-> "WriteFileHeader", arg |-> 0, ret |-> e]
    /\ d' = NewBytesDecoder(e.buf, cfg.bo, cfg.implicit)
    /\ pc' = IF e.err = Nil THEN "ParseFileHeader" ELSE "writeFailed"
    /\ UNCHANGED <<cfg, metaElems, file, ret, hist>>

WriteHeader ==
    /\ pc = "WriteFileHeader"
    /\ WriteHeaderStep(WriteFileHeader(NewEncoder(cfg.bo, cfg.implicit), cfg.ts,
                                       cfg.sopClass, cfg.sopInstance, cfg.fails))

\* WriteFileHeader, then ParseFileHeader to its return (pc = "Parse").
NextHeader ==
    \/ WriteHeader
    \/ HeaderBegin
    \/ CheckMagic
    \/ ReadMetaLength
    \/ MetaLoopBody
    \/ MetaLoopExit

SpecHeader == InitHeader /\ [][NextHeader]_vars

\* The bytes of the meta elements of cfg, laid out one by one.
WrittenBytes(c) ==
    EncodeAll(LittleEndian, ExplicitVR, WrittenElems(c.ts, c.sopClass, c.sopInstance), 1)

\* The elements ParseFileHeader has to return for cfg: tags and values.
TagsAndValues(elems) == [i \in 1..Len(elems) |-> <<elems[i].Tag, elems[i].Value>>]

C15_PosCountsConsumed ==
    [][~Panicked(d') => Pos(d') - Pos(d) = Len(d.in.data) - Len(d'.in.data)]_vars

\* The transfer syntax the file's TransferSyntaxUID element names.
NamedSyntax(c) ==
    <<ParseTransferSyntaxUID(c.ts).bo, ParseTransferSyntaxUID(c.ts).implicit>>

\* C16: in Parse the meta group is decoded under (little endian, explicit VR)
\* inside one pushed context; when ParseFileHeader has returned that context
\* is popped and the resolved syntax not yet installed; the dataset is
\* decoded, and Parse returns, with the syntax the TransferSyntaxUID element
\* names in force and the transfer-syntax stack empty.
C16_SyntaxOrdering ==
    /\ pc \in {"magic", "metaLength", "metaLoop"} =>
          /\ <<d.bo, d.implicit>> = <<LittleEndian, ExplicitVR>>
          /\ Len(d.oldBos) = 1 /\ Len(d.oldImplicits) = 1
    /\ pc = "Parse" =>
          /\ <<d.bo, d.implicit>> = <<LittleEndian, ExplicitVR>>
          /\ d.oldBos = <<>> /\ d.oldImplicits = <<>>
    /\ (pc = "dataLoop" \/ hist.dataCalls > 0 \/ (pc = "done" /\ ~ret.file.isNil)) =>
          /\ ParseTransferSyntaxUID(cfg.ts).err = Nil
          /\ <<d.bo, d.implicit>> = NamedSyntax(cfg)
          /\ d.oldBos = <<>> /\ d.oldImplicits = <<>>

\* Parse has returned a big-endian file whose two dataset elements were
\* decoded under the big-endian syntax its header names.
C16_Witness ==
    /\ pc = "done"
    /\ cfg.ts = ExplicitVRBigEndianUID
    /\ ret.err = Nil
    /\ hist.dataCalls = 2
    /\ Len(ret.file.Elements) = NumMeta(cfg) + 2
    /\ <<d.bo, d.implicit>> = <<BigEndian, ExplicitVR>>

\* The group length the first element returned declares.
DeclaredMetaLength(elems) == GetUInt32(elems[1]).v

\* C17: when ParseFileHeader has returned with no error latched, the bytes
\* consumed after the MetaElementGroupLength element (counted by Pos() and
\* by what the reader gave up) are exactly the declared group length, the
\* active limit is the outer limit again with nothing saved, and the list
\* returned is the MetaElementGroupLength element followed by the elements
\* encoded behind it, in file order and ending where Pos() stands.
C17_HeaderExact ==
    (pc = "Parse" /\ Error(d) = Nil) =>
        /\ Len(metaElems) >= 1
        /\ metaElems[1].Tag = TagMetaElementGroupLength
        /\ Pos(d) - ElemEnd(cfg, 1) = DeclaredMetaLength(metaElems)
        /\ Len(FileBytes(cfg)) - Len(d.in.data) = Pos(d)
        /\ d.limit = DeclaredLen(cfg)
        /\ d.oldLimits = <<>>
        /\ Len(metaElems) <= NumElems(cfg)
        /\ metaElems = SubSeq(AllElems(cfg), 1, Len(metaElems))
        /\ Pos(d) = ElemEnd(cfg, Len(metaElems))

\* ParseFileHeader has returned without error the group length and the two
\* meta elements behind it, with a dataset still ahead.
C17_Witness ==
    /\ pc = "Parse"
    /\ Error(d) = Nil
    /\ Len(metaElems) = 3
    /\ DeclaredMetaLength(metaElems) > 0
    /\ Pos(d) < d.limit

\* C19: a DecodeBytes(length) call made with no error latched, with at least
\* length bytes left under the active limit and in a reader that hands its
\* bytes out in chunks, returns the next length bytes of the stream in
\* stream order and advances Pos() by length.
C19_DecodeBytesInOrder ==
    [][(/\ op'.name = "DecodeBytes"
        /\ Error(d) = Nil
        /\ ~d.in.eager
        /\ op'.arg <= DLen(d)
        /\ op'.arg <= Len(d.in.data))
       => (/\ ~Panicked(d')
           /\ op'.ret = SubSeq(d.in.data, 1, op'.arg)
           /\ Pos(d') = Pos(d) + op'.arg)]_vars

\* C20: Parse stays inside the byte count passed to it: a limit pushed in
\* ParseFileHeader is no greater than the limit it replaces, Pos() is never
\* greater than the declared byte count, Len() is not negative where the
\* dataset loop tests it, and when Parse returns a nil error exactly the
\* declared bytes have been consumed.
C20_WithinOuterLimit ==
    /\ Len(d.oldLimits) > 0 => d.limit <= Last(d.oldLimits)
    /\ Pos(d) <= DeclaredLen(cfg)
    /\ pc = "dataLoop" => DLen(d) >= 0
    /\ (pc = "done" /\ ret.err = Nil) =>
          /\ Pos(d) = DeclaredLen(cfg)
          /\ Len(FileBytes(cfg)) - Len(d.in.data) = DeclaredLen(cfg)

(***************************************************************************)
(* DecodeBytes one loop iteration at a time, over readers that also make   *)
(* zero-byte reads.  op holds the call's locals: arg is length, ret is v,  *)
(* rem is len(remaining).  The loop condition and the loop body are        *)
(* separate steps.  The goroutine keeps running, hence the weak fairness   *)
(* on the steps.                                                           *)
(***************************************************************************)
\* DecodeBytes, lines 250-257: one iteration, on the result r of d.Read(v);
\* more says whether the loop condition is tested again.
DecodeBytesIter(r, v, rem) ==
    IF Panicked(r.d) THEN [d |-> r.d, v |-> v, rem |-> rem, more |-> FALSE]
    ELSE IF r.err # Nil
         THEN [d |-> [r.d EXCEPT !.err = r.err], v |-> r.data \o Drop(v, r.n),
               rem |-> rem, more |-> FALSE]
    ELSE IF r.n > rem
         THEN [d |-> DoPanic(r.d, PanicSlice), v |-> r.data \o Drop(v, r.n),
               rem |-> rem, more |-> FALSE]
    ELSE [d |-> r.d, v |-> r.data \o Drop(v, r.n), rem |-> rem - r.n, more |-> TRUE]

InitDecodeBytes ==
    \E n \in 0..MaxDecLen, c \in 0..MaxChunk, e \in BOOLEAN, z \in 0..MaxZeros,
       st \in BOOLEAN, lim \in 0..(MaxDecLen + 1) :
          /\ lim \in {n - 1, n, n + 1}
          /\ d = NewDecoder([data |-> DecBytes(n), chunk |-> c, eager |-> e,
                             zeros |-> z, stuck |-> st],
                            lim, LittleEndian, ExplicitVR)
          /\ pc = "DecodeBytes"
          /\ cfg = BaseCfg
          /\ metaElems = <<>>
          /\ file = NilFile
          /\ ret = NoRet
          /\ op = NoOp
          /\ hist = NoHist

\* Lines 248-249.
DecodeBytesBegin ==
    /\ pc = "DecodeBytes"
    /\ \E length \in 0..MaxArg :
          op' = [name |-> "DecodeBytes", arg |-> length, ret |-> Zeros(length),
                 rem |-> length]
    /\ pc' = "readLoop"
    /\ UNCHANGED <<d, cfg, metaElems, file, ret, hist>>

DecodeBytesReadStep(r) ==
    /\ d' = r.d
    /\ op' = [op EXCEPT !.ret = r.v, !.rem = r.rem]
    /\ pc' = IF r.more THEN "readLoop" ELSE "readEnd"
    /\ UNCHANGED <<cfg, metaElems, file, ret, hist>>

\* Line 250: the loop condition holds.
DecodeBytesLoopEnter ==
    /\ pc = "readLoop"
    /\ op.rem > 0
    /\ pc' = "readBody"
    /\ UNCHANGED <<d, cfg, metaElems, file, ret, op, hist>>

\* Lines 251-256: the body of the loop.
DecodeBytesRead ==
    /\ pc = "readBody"
    /\ DecodeBytesReadStep(DecodeBytesIter(Read(d, Len(op.ret)), op.ret, op.rem))

\* Line 250: the loop condition fails.
DecodeBytesLoopExit ==
    /\ pc = "readLoop"
    /\ ~(op.rem > 0)
    /\ pc' = "readEnd"
    /\ UNCHANGED <<d, cfg, metaElems, file, ret, op, hist>>

DecodeBytesReturnStep(r) ==
    /\ d' = r.d
    /\ op' = [op EXCEPT !.ret = r.v]
    /\ pc' = IF Panicked(r.d) THEN "panic" ELSE "return"
    /\ UNCHANGED <<cfg, metaElems, file, ret, hist>>

\* Lines 259-264.
DecodeBytesReturn ==
    /\ pc = "readEnd"
    /\ DecodeBytesReturnStep(DecodeBytesEnd([d |-> d, v |-> op.ret, rem |-> op.rem]))

NextDecodeBytes ==
    \/ DecodeBytesBegin
    \/ DecodeBytesLoopEnter
    \/ DecodeBytesRead
    \/ DecodeBytesLoopExit
    \/ DecodeBytesReturn

SpecDecodeBytes ==
    InitDecodeBytes /\ [][NextDecodeBytes]_vars /\ WF_vars(NextDecodeBytes)

\* C18: the read loop of DecodeBytes ends, by a return or a crash, whatever
\* the reader does, zero-byte reads included.
C18_DecodeBytesEnds == <>(pc \in {"return", "panic"})

====
